---- MODULE Spec2Model ----
(***************************************************************************)
(* KernelManager and KernelSpecManager of                                  *)
(* packages/services/src/kernel/manager.ts as one state machine.           *)
(*                                                                         *)
(* A behaviour constructs one of the two managers (variable `which`) and   *)
(* then interleaves the callers' operations, the poller, the answers of    *)
(* the remote service and the disposal of live kernels by their holders.   *)
(* The remote service is shared with other clients, which start and stop   *)
(* kernels at will: a listing that succeeds may deliver any snapshot.      *)
(* JavaScript is single threaded: every action below is one handler run    *)
(* to completion, from one suspension point (an awaited remote call or a   *)
(* timer) to the next, including the promise continuations that follow it  *)
(* in the same microtask chain.                                            *)
(*                                                                         *)
(* `last`, `pre` and `emits` are history variables: the operation of the   *)
(* last step with its inputs, the cache and the owned set before it, and   *)
(* the signals emitted during it, in order.                                *)
(***************************************************************************)
EXTENDS Integers, Sequences, FiniteSets, TLC

\* Kernel identities the remote service hands out.
Ids == {"k1", "k2"}

\* Kernel spec documents the remote service can report.
SpecDocs == {"s1", "s2"}

\* this._specs before the first successful fetch (line 472).
NoSpecs == "null"

\* Errors a remote call can fail with: a transient one and one that is not.
Errors == {"503", "500"}

\* At most MaxKernels live kernels are registered with the manager at a time.
MaxKernels == 2

\* Calls of refreshRunning() / refreshSpecs() that may be outstanding at a time.
MaxCallers == 2

\* Asynchronous operations that may be outstanding at a time: the readiness
\* fetch, poll attempts, shutdownAll, shutdown(id) and startNew calls.
MaxInFlight == 2

VARIABLES
    which,        \* "kernel": a KernelManager was constructed; "spec": a KernelSpecManager
    isDisposed,   \* this._isDisposed
    isReady,      \* this._isReady
    ready,        \* state of the promise this._ready
    poll,         \* state of this._pollModels / this._pollSpecs
    fetch,        \* the number of outstanding listRunning / getSpecs calls, by issuer
    callers,      \* the number of refreshRunning() / refreshSpecs() calls awaiting the tick
    models,       \* this._models
    kernels,      \* this._kernels, in insertion order (the order forEach visits)
    shut,         \* ids of the outstanding remote calls of shutdown(id)
    starts,       \* outstanding startNew() calls: "sent", or the id the service created
    all,          \* the outstanding shutdownAll(): its phase and its remote shutdown calls
    specs,        \* this._specs
    last,         \* history: the operation of the last step and its inputs
    pre,          \* history: cache, owned set and specs before the last step
    emits         \* history: the signals emitted by the last step, in order

vars == <<which, isDisposed, isReady, ready, poll, fetch, callers, models, kernels,
          shut, starts, all, specs, last, pre, emits>>

kmVars == <<models, kernels, shut, starts, all>>

-----------------------------------------------------------------------------
(* Values *)

\* Kernel.IModel: the identity is the only field the manager reads.
Model(id) == [id |-> id]

\* A live kernel as the manager sees it: kernel.id and kernel.isDisposed.
Kernel(id) == [id |-> id, isDisposed |-> FALSE]

\* models.map(({ id }) => id)
IdsOf(ms) == {ms[i].id : i \in DOMAIN ms}

RECURSIVE SeqsOver(_)
\* The sequences without repetition over the set S: the snapshots the service reports.
SeqsOver(S) ==
    IF S = {} THEN {<<>>}
    ELSE {<<>>} \cup UNION {{<<x>> \o s : s \in SeqsOver(S \ {x})} : x \in S}

Snapshots == {[i \in DOMAIN s |-> Model(s[i])] : s \in SeqsOver(Ids)}

\* ArrayExt.findFirstIndex(models, value => value.id === id); 0 stands for -1.
findFirstIndex(ms, id) ==
    IF \E i \in DOMAIN ms : ms[i].id = id
    THEN CHOOSE i \in DOMAIN ms : ms[i].id = id /\ \A j \in 1..(i - 1) : ms[j].id # id
    ELSE 0

\* models.splice(index, 1)
Splice(ms, index) == [j \in 1..(Len(ms) - 1) |-> IF j < index THEN ms[j] ELSE ms[j + 1]]

\* A mutant of deepEqual: compares the snapshots as sets of models.
deepEqualUnordered(a, b) == {a[i] : i \in DOMAIN a} = {b[i] : i \in DOMAIN b}

\* JSONExt.deepEqual on two arrays: same length, and equal element by element.
deepEqual(a, b) == Len(a) = Len(b) /\ \A i \in DOMAIN a : a[i] = b[i]

\* A mutant of IsTransient: the check for the 503 status is missing.
IsTransientNetworkOnly(err) == err = "NetworkError"

\* A mutant of IsTransient: every error is taken for a transient one.
IsTransientAlways(err) == TRUE

\* err instanceof ServerConnection.NetworkError || err.response.status === 503
IsTransient(err) == err \in {"NetworkError", "503"}

-----------------------------------------------------------------------------
(* Signals *)

RunningChanged(payload, cache) ==
    [sig |-> "runningChanged", payload |-> payload, cache |-> cache, err |-> "", doc |-> NoSpecs]

ConnectionFailure(err, cache) ==
    [sig |-> "connectionFailure", payload |-> <<>>, cache |-> cache, err |-> err, doc |-> NoSpecs]

SpecsChanged(doc) ==
    [sig |-> "specsChanged", payload |-> <<>>, cache |-> <<>>, err |-> "", doc |-> doc]

\* The emissions of signal sig among es.
Emitted(es, sig) == SelectSeq(es, LAMBDA e : e.sig = sig)

-----------------------------------------------------------------------------
(* The synchronous code of KernelManager, on st = [models, kernels, emits] *)

\* _onTerminated(id)
OnTerminated(st, id) ==
    LET index == findFirstIndex(st.models, id) IN
    IF index # 0
    THEN LET m == Splice(st.models, index) IN
         [st EXCEPT !.models = m, !.emits = Append(@, RunningChanged(m, m))]
    ELSE st

\* kernel.dispose() as the manager observes it: the first disposal of a kernel
\* emits kernel.disposed, which runs the callback connected in _onStarted;
\* disposing a disposed kernel does nothing.
KernelDispose(st, kernel) ==
    IF kernel.isDisposed THEN st ELSE OnTerminated(st, kernel.id)

RECURSIVE DisposeEach(_, _)
\* kernels.forEach(kernel => kernel.dispose()) over the kernels ks, in order.
DisposeEach(st, ks) ==
    IF ks = <<>> THEN st ELSE DisposeEach(KernelDispose(st, Head(ks)), Tail(ks))

\* A mutant of _onStarted: always pushes the model and emits.
OnStartedAlwaysPush(st, kernel) ==
    LET m == Append(st.models, Model(kernel.id)) IN
    [st EXCEPT !.kernels = Append(@, kernel), !.models = m,
               !.emits = Append(@, RunningChanged(m, m))]

\* _onStarted(kernel)
OnStarted(st, kernel) ==
    LET s1 == [st EXCEPT !.kernels = Append(@, kernel)] IN
    IF findFirstIndex(s1.models, kernel.id) = 0
    THEN LET m == Append(s1.models, Model(kernel.id)) IN
         [s1 EXCEPT !.models = m, !.emits = Append(@, RunningChanged(m, m))]
    ELSE s1

\* A mutant of Reconcile: runningChanged is emitted before the cache is replaced.
ReconcileEmitFirst(st, snap) ==
    IF deepEqual(snap, st.models) THEN st
    ELSE LET ids == IdsOf(snap)
             s1 == DisposeEach(st, SelectSeq(st.kernels, LAMBDA k : k.id \notin ids))
         IN  [s1 EXCEPT !.kernels = SelectSeq(st.kernels, LAMBDA k : k.id \in ids),
                        !.models = snap,
                        !.emits = Append(@, RunningChanged(snap, s1.models))]

\* requestRunning, lines 259-270: the diff against the cache and the reconciliation.
Reconcile(st, snap) ==
    IF deepEqual(snap, st.models) THEN st
    ELSE LET ids == IdsOf(snap)
             s1 == DisposeEach(st, SelectSeq(st.kernels, LAMBDA k : k.id \notin ids))
         IN  [s1 EXCEPT !.kernels = SelectSeq(st.kernels, LAMBDA k : k.id \in ids),
                        !.models = snap,
                        !.emits = Append(@, RunningChanged(snap, snap))]

\* A mutant of RequestRunning: the test of this._isDisposed (lines 256-258) is
\* missing.
RequestRunningUnchecked(st, f, disposed) ==
    IF f.out = "ok"
    THEN [st |-> Reconcile(st, f.snap), rejected |-> FALSE]
    ELSE IF IsTransient(f.out)
    THEN LET s1 == [st EXCEPT !.emits = Append(@, ConnectionFailure(f.out, st.models))] IN
         [st |-> Reconcile(s1, <<>>), rejected |-> FALSE]
    ELSE [st |-> st, rejected |-> TRUE]

\* requestRunning from the moment listRunning settles with f = [out, snap]:
\* the new local state, and whether requestRunning rejects.
RequestRunning(st, f, disposed) ==
    IF f.out = "ok"
    THEN [st |-> IF disposed THEN st ELSE Reconcile(st, f.snap), rejected |-> FALSE]
    ELSE IF IsTransient(f.out)
    THEN LET s1 == [st EXCEPT !.emits = Append(@, ConnectionFailure(f.out, st.models))] IN
         [st |-> IF disposed THEN s1 ELSE Reconcile(s1, <<>>), rejected |-> FALSE]
    ELSE [st |-> st, rejected |-> TRUE]

\* shutdown(id), lines 180-190, for an id found in the cache at index.
ShutdownLocal(st, id, index) ==
    LET m  == Splice(st.models, index)
        s1 == [st EXCEPT !.models = m, !.emits = Append(@, RunningChanged(m, m))]
        s2 == DisposeEach(s1, SelectSeq(st.kernels, LAMBDA k : k.id = id))
    IN  [s2 EXCEPT !.kernels = SelectSeq(st.kernels, LAMBDA k : k.id # id)]

\* shutdownAll, the finally block, lines 209-219.
Cleanup(st) ==
    LET s1 == [DisposeEach(st, st.kernels) EXCEPT !.kernels = <<>>] IN
    IF Len(s1.models) # 0
    THEN [s1 EXCEPT !.models = <<>>, !.emits = Append(@, RunningChanged(<<>>, <<>>))]
    ELSE s1

-----------------------------------------------------------------------------
(* The poller, this._pollModels / this._pollSpecs *)

\* start(): arms a poller that was not started; idempotent otherwise.
PollStart(p) == IF p = "constructed" THEN "waiting" ELSE p

\* refresh() with no attempt outstanding starts one at once.
PollIdle(p) == p \in {"constructed", "waiting"}

\* The poller after an attempt has settled: it waits for the next tick.
PollSettled(p) == IF p = "disposed" THEN p ELSE "waiting"

\* refresh(): what it does in poller state p. It is rejected once the poller is
\* disposed, joins the attempt that is outstanding, and starts one otherwise.
PollRefresh(p) ==
    IF p = "disposed" THEN "reject"
    ELSE IF PollIdle(p) THEN "start"
    ELSE "join"

-----------------------------------------------------------------------------
(* History and bookkeeping *)

NoMid == [models |-> <<>>, kernels |-> <<>>, emits |-> <<>>]

\* op: the operation; id, out, snap, doc: its inputs (identity, outcome of the
\* remote call, snapshot or document it delivered); settled: the refresh callers
\* it settled; rejected: whether the operation's promise rejected; calls: the
\* remote shutdown calls it issued; mid: the local state when the cleanup of
\* shutdownAll started; now: of the kernels owned when a listRunning settled,
\* those whose kernel existed at the service at that moment.
NoLast ==
    [op |-> "new", id |-> "", out |-> "", snap |-> <<>>, doc |-> NoSpecs,
     settled |-> 0, rejected |-> FALSE, calls |-> <<>>, mid |-> NoMid, now |-> {}]

St == [models |-> models, kernels |-> kernels, emits |-> <<>>]

Apply(st) == models' = st.models /\ kernels' = st.kernels /\ emits' = st.emits

Pre == pre' = [models |-> models, kernels |-> kernels, specs |-> specs]

Remove(s, i) == [j \in 1..(Len(s) - 1) |-> IF j < i THEN s[j] ELSE s[j + 1]]

\* The outcomes of a remote call.
Outcomes == {"ok"} \cup Errors

\* The identities of the live kernels of the owned set.
OwnedLive == {kernels[i].id : i \in {j \in DOMAIN kernels : ~kernels[j].isDisposed}}

\* What a listRunning can settle with: a snapshot, or an error. The snapshot is
\* the listing the service took while the call was outstanding; now tells which
\* of the owned live kernels exist at the service when the answer arrives. Other
\* clients and this manager's own startNew calls change the service meanwhile.
ListRunningAnswers ==
    {[out |-> "ok", snap |-> s, doc |-> NoSpecs, now |-> n] :
        s \in Snapshots, n \in SUBSET OwnedLive}
        \cup {[out |-> e, snap |-> <<>>, doc |-> NoSpecs, now |-> n] :
                 e \in Errors, n \in SUBSET OwnedLive}

\* What a getSpecs can settle with: a document, or an error.
GetSpecsAnswers ==
    {[out |-> "ok", snap |-> <<>>, doc |-> d] : d \in SpecDocs}
        \cup {[out |-> e, snap |-> <<>>, doc |-> NoSpecs] : e \in Errors}

\* The asynchronous operations outstanding.
InFlight ==
    fetch.ready + fetch.poll + Len(shut) + Len(starts)
        + (IF all.phase = "idle" THEN 0 ELSE 1)

\* Identities the manager knows or awaits: the service creates no kernel under one.
UsedIds ==
    IdsOf(models) \cup IdsOf(kernels) \cup {starts[i] : i \in DOMAIN starts}
        \cup {shut[i] : i \in DOMAIN shut} \cup {all.pend[i] : i \in DOMAIN all.pend}

-----------------------------------------------------------------------------
(* Construction *)

NoFetch == [ready |-> 0, poll |-> 0, all |-> 0]

\* new KernelManager(): the readiness fetch of line 36 is outstanding, the
\* poller is constructed and not started (auto: false).
InitKernel ==
    /\ which = "kernel"

\* new KernelSpecManager(): the readiness fetch of line 352 is outstanding.
InitSpec ==
    /\ which = "spec"

Init ==
    /\ isDisposed = FALSE
    /\ isReady = FALSE
    /\ ready = "pending"
    /\ poll = "constructed"
    /\ fetch = [NoFetch EXCEPT !.ready = 1]
    /\ callers = 0
    /\ models = <<>>
    /\ kernels = <<>>
    /\ shut = <<>>
    /\ starts = <<>>
    /\ all = [phase |-> "idle", pend |-> <<>>]
    /\ specs = NoSpecs
    /\ last = NoLast
    /\ pre = [models |-> <<>>, kernels |-> <<>>, specs |-> NoSpecs]
    /\ emits = <<>>
    /\ (InitKernel \/ InitSpec)

-----------------------------------------------------------------------------
(* KernelManager: readiness, polling, refresh *)

\* The constructor, lines 35-41 and 55-57, once requestRunning has settled:
\* the promise ready, isReady, and whether the poller is started.
ReadyOutcome(rejected, disposed) ==
    IF rejected THEN [ready |-> "rejected", isReady |-> isReady, started |-> FALSE]
    ELSE [ready |-> "resolved", isReady |-> IF disposed THEN isReady ELSE TRUE,
          started |-> TRUE]

\* The readiness fetch of the constructor settles.
ReadySettle(f) ==
    /\ which = "kernel"
    /\ fetch.ready > 0
    /\ LET r == RequestRunning(St, f, isDisposed)
           o == ReadyOutcome(r.rejected, isDisposed)
       IN  /\ Apply(r.st)
           /\ ready' = o.ready
           /\ isReady' = o.isReady
           /\ poll' = IF o.started THEN PollStart(poll) ELSE poll
           /\ last' = [NoLast EXCEPT !.op = "ready", !.out = f.out, !.snap = f.snap,
                                     !.rejected = r.rejected, !.now = f.now]
    /\ fetch' = [fetch EXCEPT !.ready = @ - 1]
    /\ Pre
    /\ UNCHANGED <<which, isDisposed, callers, shut, starts, all, specs>>

\* The poller's timer fires: the factory calls requestRunning (line 46).
PollTick ==
    /\ which = "kernel"
    /\ poll = "waiting"
    /\ poll' = "fetching"
    /\ InFlight < MaxInFlight
    /\ fetch' = [fetch EXCEPT !.poll = @ + 1]
    /\ last' = [NoLast EXCEPT !.op = "tick"]
    /\ emits' = <<>>
    /\ Pre
    /\ UNCHANGED <<which, isDisposed, isReady, ready, callers, models, kernels, shut,
                   starts, all, specs>>

\* The requestRunning of a poll attempt settles: the tick resolves, or rejects
\* with the failure, for every refreshRunning() that awaits it.
PollSettle(f) ==
    /\ which = "kernel"
    /\ fetch.poll > 0
    /\ LET r == RequestRunning(St, f, isDisposed)
       IN  /\ Apply(r.st)
           /\ last' = [NoLast EXCEPT !.op = "poll", !.out = f.out, !.snap = f.snap,
                                     !.rejected = r.rejected, !.settled = callers,
                                     !.now = f.now]
    /\ fetch' = [fetch EXCEPT !.poll = @ - 1]
    /\ poll' = IF fetch.poll = 1 THEN PollSettled(poll) ELSE poll
    /\ callers' = 0
    /\ Pre
    /\ UNCHANGED <<which, isDisposed, isReady, ready, shut, starts, all, specs>>

\* A mutant of Refresh: the refresh calls the fetch itself, whatever the poller
\* is doing.
RefreshDirect ==
    /\ callers < MaxCallers
    /\ poll # "disposed"
    /\ InFlight < MaxInFlight
    /\ callers' = callers + 1
    /\ poll' = "fetching"
    /\ fetch' = [fetch EXCEPT !.poll = @ + 1]
    /\ last' = [NoLast EXCEPT !.op = "refresh"]

\* refreshRunning() / refreshSpecs(), lines 146-149 and 446-449: poll.refresh(),
\* then the caller awaits poll.tick.
Refresh ==
    /\ callers < MaxCallers
    /\ \/ /\ PollRefresh(poll) = "reject"
          /\ last' = [NoLast EXCEPT !.op = "refresh", !.rejected = TRUE, !.settled = 1]
          /\ UNCHANGED <<callers, poll, fetch>>
       \/ /\ PollRefresh(poll) = "join"
          /\ callers' = callers + 1
          /\ last' = [NoLast EXCEPT !.op = "refresh"]
          /\ UNCHANGED <<poll, fetch>>
       \/ /\ PollRefresh(poll) = "start"
          /\ InFlight < MaxInFlight
          /\ callers' = callers + 1
          /\ poll' = "fetching"
          /\ fetch' = [fetch EXCEPT !.poll = @ + 1]
          /\ last' = [NoLast EXCEPT !.op = "refresh"]

RefreshRunning ==
    /\ which = "kernel"
    /\ Refresh
    /\ emits' = <<>>
    /\ Pre
    /\ UNCHANGED <<which, isDisposed, isReady, ready, models, kernels, shut, starts, all,
                   specs>>

-----------------------------------------------------------------------------
(* KernelManager: connectTo, startNew *)

\* connectTo(model), lines 107-111, for a model with identity id.
ConnectTo(id) ==
    /\ which = "kernel"
    /\ Len(kernels) + Len(starts) < MaxKernels
    /\ Apply(OnStarted(St, Kernel(id)))
    /\ last' = [NoLast EXCEPT !.op = "connectTo", !.id = id]
    /\ Pre
    /\ UNCHANGED <<which, isDisposed, isReady, ready, poll, fetch, callers, shut, starts,
                   all, specs>>

\* startNew(options), lines 234-235: the remote creation call is issued.
StartNew ==
    /\ which = "kernel"
    /\ InFlight < MaxInFlight
    /\ Len(kernels) + Len(starts) < MaxKernels
    /\ starts' = Append(starts, "sent")
    /\ last' = [NoLast EXCEPT !.op = "startNew"]
    /\ emits' = <<>>
    /\ Pre
    /\ UNCHANGED <<which, isDisposed, isReady, ready, poll, fetch, callers, models,
                   kernels, shut, all, specs>>

\* The service creates the kernel of the i-th startNew, under a fresh identity.
RemoteCreate(i, id) ==
    /\ which = "kernel"
    /\ i \in DOMAIN starts
    /\ starts[i] = "sent"
    /\ id \notin UsedIds
    /\ starts' = [starts EXCEPT ![i] = id]
    /\ last' = [NoLast EXCEPT !.op = "remoteCreate", !.id = id]
    /\ emits' = <<>>
    /\ Pre
    /\ UNCHANGED <<which, isDisposed, isReady, ready, poll, fetch, callers, models,
                   kernels, shut, all, specs>>

\* startNew, lines 236-237: Kernel.startNew resolved with the kernel created.
StartNewResolved(i) ==
    /\ which = "kernel"
    /\ i \in DOMAIN starts
    /\ starts[i] \in Ids
    /\ Apply(OnStarted(St, Kernel(starts[i])))
    /\ starts' = Remove(starts, i)
    /\ last' = [NoLast EXCEPT !.op = "startNewResolved", !.id = starts[i]]
    /\ Pre
    /\ UNCHANGED <<which, isDisposed, isReady, ready, poll, fetch, callers, shut, all,
                   specs>>

\* A mutant of StartNewFailed: the failure is swallowed and a kernel registered.
StartNewFailedRegisters(st, err) == OnStarted(st, Kernel("k1"))

\* startNew, line 235, when Kernel.startNew rejects with err: the await throws
\* and startNew rejects; nothing after it runs.
StartNewFailed(st, err) == st

\* Kernel.startNew rejected: the service created nothing.
StartNewRejected(i, err) ==
    /\ which = "kernel"
    /\ i \in DOMAIN starts
    /\ starts[i] = "sent"
    /\ Apply(StartNewFailed(St, err))
    /\ starts' = Remove(starts, i)
    /\ last' = [NoLast EXCEPT !.op = "startNewRejected", !.out = err, !.rejected = TRUE]
    /\ Pre
    /\ UNCHANGED <<which, isDisposed, isReady, ready, poll, fetch, callers, shut, all,
                   specs>>

-----------------------------------------------------------------------------
(* KernelManager: shutdown *)

\* shutdown(id), lines 172-193, up to the await of the remote call.
Shutdown(id) ==
    /\ which = "kernel"
    /\ LET index == findFirstIndex(models, id) IN
       \/ /\ index = 0
          /\ last' = [NoLast EXCEPT !.op = "shutdownUnknown", !.id = id]
          /\ emits' = <<>>
          /\ UNCHANGED <<models, kernels, shut>>
       \/ /\ index # 0
          /\ InFlight < MaxInFlight
          /\ Apply(ShutdownLocal(St, id, index))
          /\ shut' = Append(shut, id)
          /\ last' = [NoLast EXCEPT !.op = "shutdown", !.id = id]
    /\ Pre
    /\ UNCHANGED <<which, isDisposed, isReady, ready, poll, fetch, callers, starts, all,
                   specs>>

\* A mutant of ShutdownSettled: a failed remote call puts the model back.
ShutdownSettledRollback(st, id, failed) ==
    IF failed /\ findFirstIndex(st.models, id) = 0
    THEN LET m == Append(st.models, Model(id)) IN
         [st EXCEPT !.models = m, !.emits = Append(@, RunningChanged(m, m))]
    ELSE st

\* shutdown(id), lines 193-194: nothing runs after the awaited remote call,
\* whether it resolved or rejected.
ShutdownSettled(st, id, failed) == st

\* The remote call of shutdown(shut[i]) resolves: the service stopped the kernel.
ShutdownResolved(i) ==
    /\ which = "kernel"
    /\ i \in DOMAIN shut
    /\ Apply(ShutdownSettled(St, shut[i], FALSE))
    /\ shut' = Remove(shut, i)
    /\ last' = [NoLast EXCEPT !.op = "shutdownSettled", !.id = shut[i]]
    /\ Pre
    /\ UNCHANGED <<which, isDisposed, isReady, ready, poll, fetch, callers, starts, all, specs>>

\* The remote call of shutdown(shut[i]) rejects with err: shutdown rejects.
ShutdownRejected(i, err) ==
    /\ which = "kernel"
    /\ i \in DOMAIN shut
    /\ Apply(ShutdownSettled(St, shut[i], TRUE))
    /\ shut' = Remove(shut, i)
    /\ last' = [NoLast EXCEPT !.op = "shutdownSettled", !.id = shut[i], !.out = err,
                              !.rejected = TRUE]
    /\ Pre
    /\ UNCHANGED <<which, isDisposed, isReady, ready, poll, fetch, callers, starts, all,
                   specs>>

-----------------------------------------------------------------------------
(* KernelManager: shutdownAll *)

Idle == [phase |-> "idle", pend |-> <<>>]

\* A mutant of ShutdownAllSettle: the cleanup runs on success only (a then, not
\* a finally).
ShutdownAllSettleOnSuccess(st, failed) == IF failed THEN st ELSE Cleanup(st)

\* shutdownAll settles, lines 208-220: the finally block runs whether the try
\* block failed or not, and then the promise settles.
ShutdownAllSettle(st, failed) == Cleanup(st)

\* A mutant of ShutdownCalls: one remote shutdown call per owned kernel.
ShutdownCallsPerKernel(st) == [i \in DOMAIN st.kernels |-> st.kernels[i].id]

\* this._models.map(({ id }) => Kernel.shutdown(id, ...)), line 206: the
\* identities of the remote shutdown calls issued.
ShutdownCalls(st) == [i \in DOMAIN st.models |-> st.models[i].id]

\* shutdownAll(), line 204: requestRunning is called.
ShutdownAll ==
    /\ which = "kernel"
    /\ all.phase = "idle"
    /\ InFlight < MaxInFlight
    /\ all' = [phase |-> "fetching", pend |-> <<>>]
    /\ fetch' = [fetch EXCEPT !.all = 1]
    /\ last' = [NoLast EXCEPT !.op = "shutdownAll"]
    /\ emits' = <<>>
    /\ Pre
    /\ UNCHANGED <<which, isDisposed, isReady, ready, poll, callers, models, kernels,
                   shut, starts, specs>>

\* The requestRunning of shutdownAll settles, lines 204-207. If it rejected, or
\* no identity is cached (Promise.all of nothing resolves), shutdownAll settles
\* here; otherwise the remote shutdown calls are issued.
ShutdownAllFetched(f) ==
    /\ which = "kernel"
    /\ all.phase = "fetching"
    /\ fetch.all > 0
    /\ LET r == RequestRunning(St, f, isDisposed)
           calls == ShutdownCalls(r.st)
       IN  IF r.rejected \/ calls = <<>>
           THEN /\ Apply(ShutdownAllSettle(r.st, r.rejected))
                /\ all' = Idle
                /\ last' = [NoLast EXCEPT !.op = "shutdownAllSettled", !.out = f.out,
                                          !.snap = f.snap, !.rejected = r.rejected,
                                          !.mid = r.st, !.now = f.now]
           ELSE /\ Apply(r.st)
                /\ all' = [phase |-> "shutting", pend |-> calls]
                /\ last' = [NoLast EXCEPT !.op = "shutdownAllFetched", !.out = f.out,
                                          !.snap = f.snap, !.calls = calls,
                                          !.now = f.now]
    /\ fetch' = [fetch EXCEPT !.all = 0]
    /\ Pre
    /\ UNCHANGED <<which, isDisposed, isReady, ready, poll, callers, shut, starts, specs>>

\* One remote shutdown call of shutdownAll resolves; with the last one
\* Promise.all resolves and shutdownAll settles.
ShutdownAllResolved(i) ==
    /\ which = "kernel"
    /\ all.phase = "shutting"
    /\ i \in DOMAIN all.pend
    /\ IF Len(all.pend) = 1
       THEN /\ Apply(ShutdownAllSettle(St, FALSE))
            /\ all' = Idle
            /\ last' = [NoLast EXCEPT !.op = "shutdownAllSettled", !.id = all.pend[i],
                                      !.out = "ok", !.mid = St]
       ELSE /\ Apply(St)
            /\ all' = [all EXCEPT !.pend = Remove(@, i)]
            /\ last' = [NoLast EXCEPT !.op = "shutdownAllOne", !.id = all.pend[i]]
    /\ Pre
    /\ UNCHANGED <<which, isDisposed, isReady, ready, poll, fetch, callers, shut, starts, specs>>

\* One remote shutdown call of shutdownAll rejects with err: Promise.all rejects
\* at once and shutdownAll settles; the answers of the calls still outstanding
\* are ignored.
ShutdownAllRejected(i, err) ==
    /\ which = "kernel"
    /\ all.phase = "shutting"
    /\ i \in DOMAIN all.pend
    /\ Apply(ShutdownAllSettle(St, TRUE))
    /\ all' = Idle
    /\ last' = [NoLast EXCEPT !.op = "shutdownAllSettled", !.id = all.pend[i],
                              !.out = err, !.rejected = TRUE, !.mid = St]
    /\ Pre
    /\ UNCHANGED <<which, isDisposed, isReady, ready, poll, fetch, callers, shut, starts,
                   specs>>

-----------------------------------------------------------------------------
(* KernelManager: disposal, the holders of kernels, the other clients *)

\* The holder of the i-th registered kernel disposes it: kernel.disposed runs
\* the callback of lines 284-286. The kernel stays in this._kernels.
KernelDisposed(i) ==
    /\ which = "kernel"
    /\ i \in DOMAIN kernels
    /\ ~kernels[i].isDisposed
    /\ LET st == KernelDispose(St, kernels[i]) IN
       /\ models' = st.models
       /\ emits' = st.emits
       /\ kernels' = [kernels EXCEPT ![i].isDisposed = TRUE]
    /\ last' = [NoLast EXCEPT !.op = "kernelDisposed", !.id = kernels[i].id]
    /\ Pre
    /\ UNCHANGED <<which, isDisposed, isReady, ready, poll, fetch, callers, shut, starts,
                   all, specs>>

\* A mutant of Dispose: the guard of lines 117-119 is missing, and a second
\* call tears the manager down again.
DisposeUnguarded ==
    /\ which = "kernel"
    /\ isDisposed' = TRUE
    /\ models' = <<>>
    /\ poll' = "disposed"
    /\ callers' = 0
    /\ last' = [NoLast EXCEPT !.op = "dispose", !.settled = callers,
                              !.rejected = callers # 0]
    /\ emits' = <<>>
    /\ Pre
    /\ UNCHANGED <<which, isReady, ready, fetch, kernels, shut, starts, all, specs>>

\* A mutant of Dispose: disposal also resets this._isReady.
DisposeResetsReady ==
    /\ which = "kernel"
    /\ IF isDisposed
       THEN /\ last' = [NoLast EXCEPT !.op = "dispose"]
            /\ UNCHANGED <<isDisposed, models, poll, callers>>
       ELSE /\ isDisposed' = TRUE
            /\ models' = <<>>
            /\ poll' = "disposed"
            /\ callers' = 0
            /\ last' = [NoLast EXCEPT !.op = "dispose", !.settled = callers,
                                      !.rejected = callers # 0]
    /\ isReady' = FALSE
    /\ emits' = <<>>
    /\ Pre
    /\ UNCHANGED <<which, ready, fetch, kernels, shut, starts, all, specs>>

\* dispose(), lines 116-124. Disposing the poller rejects the tick the refresh
\* callers await; Signal.clearData disconnects the subscribers of the manager's
\* signals, not the callbacks the manager connected to its kernels.
Dispose ==
    /\ which = "kernel"
    /\ IF isDisposed
       THEN /\ last' = [NoLast EXCEPT !.op = "dispose"]
            /\ UNCHANGED <<isDisposed, models, poll, callers>>
       ELSE /\ isDisposed' = TRUE
            /\ models' = <<>>
            /\ poll' = "disposed"
            /\ callers' = 0
            /\ last' = [NoLast EXCEPT !.op = "dispose", !.settled = callers,
                                      !.rejected = callers # 0]
    /\ emits' = <<>>
    /\ Pre
    /\ UNCHANGED <<which, isReady, ready, fetch, kernels, shut, starts, all, specs>>

-----------------------------------------------------------------------------
(* KernelSpecManager *)

\* requestSpecs, lines 454-463, from the moment getSpecs settles with
\* f = [out, doc] and the cache holding cached: the new cache, the emissions,
\* and whether requestSpecs rejects. No failure is caught. A document is a
\* value here, and JSONExt.deepEqual on two documents is their equality.
RequestSpecs(cached, f, disposed) ==
    IF f.out # "ok" THEN [specs |-> cached, emits |-> <<>>, rejected |-> TRUE]
    ELSE IF disposed THEN [specs |-> cached, emits |-> <<>>, rejected |-> FALSE]
    ELSE IF f.doc # cached
    THEN [specs |-> f.doc, emits |-> <<SpecsChanged(f.doc)>>, rejected |-> FALSE]
    ELSE [specs |-> cached, emits |-> <<>>, rejected |-> FALSE]

\* The constructor, lines 352-360 and 373-375, once requestSpecs has settled:
\* every failure is caught, ready resolves, and the poller is started.
SpecReadyOutcome(rejected, disposed) ==
    [ready |-> "resolved", isReady |-> IF disposed THEN isReady ELSE TRUE, started |-> TRUE]

\* The readiness fetch of the constructor settles.
SpecReadySettle(f) ==
    /\ which = "spec"
    /\ fetch.ready > 0
    /\ LET r == RequestSpecs(specs, f, isDisposed)
           o == SpecReadyOutcome(r.rejected, isDisposed)
       IN  /\ specs' = r.specs
           /\ emits' = r.emits
           /\ ready' = o.ready
           /\ isReady' = o.isReady
           /\ poll' = IF o.started THEN PollStart(poll) ELSE poll
           /\ last' = [NoLast EXCEPT !.op = "ready", !.out = f.out, !.doc = f.doc,
                                     !.rejected = r.rejected]
    /\ fetch' = [fetch EXCEPT !.ready = @ - 1]
    /\ Pre
    /\ UNCHANGED <<which, isDisposed, callers>>
    /\ UNCHANGED kmVars

\* The poller's timer fires: the factory calls requestSpecs (line 364).
SpecPollTick ==
    /\ which = "spec"
    /\ poll = "waiting"
    /\ poll' = "fetching"
    /\ InFlight < MaxInFlight
    /\ fetch' = [fetch EXCEPT !.poll = @ + 1]
    /\ last' = [NoLast EXCEPT !.op = "tick"]
    /\ emits' = <<>>
    /\ Pre
    /\ UNCHANGED <<which, isDisposed, isReady, ready, callers, specs>>
    /\ UNCHANGED kmVars

\* The requestSpecs of a poll attempt settles.
SpecPollSettle(f) ==
    /\ which = "spec"
    /\ fetch.poll > 0
    /\ LET r == RequestSpecs(specs, f, isDisposed)
       IN  /\ specs' = r.specs
           /\ emits' = r.emits
           /\ last' = [NoLast EXCEPT !.op = "poll", !.out = f.out, !.doc = f.doc,
                                     !.rejected = r.rejected, !.settled = callers]
    /\ fetch' = [fetch EXCEPT !.poll = @ - 1]
    /\ poll' = IF fetch.poll = 1 THEN PollSettled(poll) ELSE poll
    /\ callers' = 0
    /\ Pre
    /\ UNCHANGED <<which, isDisposed, isReady, ready>>
    /\ UNCHANGED kmVars

RefreshSpecs ==
    /\ which = "spec"
    /\ Refresh
    /\ emits' = <<>>
    /\ Pre
    /\ UNCHANGED <<which, isDisposed, isReady, ready, specs>>
    /\ UNCHANGED kmVars

\* dispose(), lines 428-435: this._specs is kept.
SpecDispose ==
    /\ which = "spec"
    /\ IF isDisposed
       THEN /\ last' = [NoLast EXCEPT !.op = "dispose"]
            /\ UNCHANGED <<isDisposed, poll, callers>>
       ELSE /\ isDisposed' = TRUE
            /\ poll' = "disposed"
            /\ callers' = 0
            /\ last' = [NoLast EXCEPT !.op = "dispose", !.settled = callers,
                                      !.rejected = callers # 0]
    /\ emits' = <<>>
    /\ Pre
    /\ UNCHANGED <<which, isReady, ready, fetch, specs>>
    /\ UNCHANGED kmVars

-----------------------------------------------------------------------------
(* The specification *)

Next ==
    \/ \E f \in ListRunningAnswers : ReadySettle(f)
    \/ PollTick
    \/ \E f \in ListRunningAnswers : PollSettle(f)
    \/ RefreshRunning
    \/ \E id \in Ids : ConnectTo(id)
    \/ StartNew
    \/ \E i \in 1..MaxInFlight, id \in Ids : RemoteCreate(i, id)
    \/ \E i \in 1..MaxInFlight : StartNewResolved(i)
    \/ \E i \in 1..MaxInFlight, err \in Errors : StartNewRejected(i, err)
    \/ \E id \in Ids : Shutdown(id)
    \/ \E i \in 1..MaxInFlight : ShutdownResolved(i)
    \/ \E i \in 1..MaxInFlight, err \in Errors : ShutdownRejected(i, err)
    \/ ShutdownAll
    \/ \E f \in ListRunningAnswers : ShutdownAllFetched(f)
    \/ \E i \in 1..Cardinality(Ids) : ShutdownAllResolved(i)
    \/ \E i \in 1..Cardinality(Ids), err \in Errors : ShutdownAllRejected(i, err)
    \/ \E i \in 1..MaxKernels : KernelDisposed(i)
    \/ Dispose
    \/ \E f \in GetSpecsAnswers : SpecReadySettle(f)
    \/ SpecPollTick
    \/ \E f \in GetSpecsAnswers : SpecPollSettle(f)
    \/ RefreshSpecs
    \/ SpecDispose

Spec == Init /\ [][Next]_vars

\* What the scheduling guarantees: a remote call that is outstanding is answered
\* or fails, and the timer of a poller that waits fires. The callers, the holders
\* of kernels and the other clients are under no obligation.
Fairness ==
    /\ WF_vars(\E f \in ListRunningAnswers : ReadySettle(f))
    /\ WF_vars(PollTick)
    /\ WF_vars(\E f \in ListRunningAnswers : PollSettle(f))
    /\ WF_vars(\E f \in GetSpecsAnswers : SpecReadySettle(f))
    /\ WF_vars(SpecPollTick)
    /\ WF_vars(\E f \in GetSpecsAnswers : SpecPollSettle(f))

FairSpec == Init /\ [][Next]_vars /\ Fairness

-----------------------------------------------------------------------------
(* Reading the history *)

\* shutdownAll settled in the step in which its refresh fetch settled.
SettledAtFetch == last.op = "shutdownAllSettled" /\ last.id = ""

\* The last step ran requestRunning from the settling of listRunning on.
FetchStep == last.op \in {"ready", "poll", "shutdownAllFetched"} \/ SettledAtFetch

\* Cache, owned set and emissions as requestRunning left them in the last step.
Fetched ==
    IF SettledAtFetch THEN last.mid
    ELSE [models |-> models, kernels |-> kernels, emits |-> emits]

\* The emissions of the cleanup of shutdownAll in the last step.
CleanupEmits == SubSeq(emits, Len(last.mid.emits) + 1, Len(emits))

-----------------------------------------------------------------------------
(* Claims *)

\* C1: in a manager that is not disposed, a fetch that completes with a snapshot
\* emits runningChanged / specsChanged if and only if the snapshot differs from
\* the cache it meets, and leaves the cache equal to the snapshot, so that an equal
\* snapshot fetched next emits nothing.
C1_DiffGating ==
    /\ (which = "kernel" /\ FetchStep /\ ~last.rejected /\ ~isDisposed) =>
          /\ (Emitted(Fetched.emits, "runningChanged") # <<>>) <=> (last.snap # pre.models)
          /\ Fetched.models = last.snap
    /\ (which = "spec" /\ last.op \in {"ready", "poll"} /\ ~last.rejected /\ ~isDisposed) =>
          /\ (Emitted(emits, "specsChanged") # <<>>) <=> (last.doc # pre.specs)
          /\ specs = last.doc

\* C1, witness: a poll delivers a snapshot equal to a non-empty cache; nothing is emitted.
C1_Witness ==
    /\ which = "kernel" /\ last.op = "poll" /\ last.out = "ok" /\ ~isDisposed
    /\ Len(last.snap) = 2 /\ last.snap = pre.models /\ emits = <<>>

\* C2: if the manager is not disposed, once the first fetch has settled, with
\* whatever outcome, ready is resolved and isReady is true.
C2_ReadyWhateverOutcome ==
    (fetch.ready = 0 /\ ~isDisposed) => (ready = "resolved" /\ isReady)

C4_FatalPropagates ==
    (which = "kernel" /\ FetchStep /\ last.out = "500") =>
        /\ last.rejected
        /\ Fetched.models = pre.models
        /\ Fetched.kernels = pre.kernels
        /\ Fetched.emits = <<>>

\* C4, witness: a poll awaited by a refreshRunning fails with 500 while the cache
\* and the owned set are not empty.
C4_Witness ==
    /\ which = "kernel" /\ last.op = "poll" /\ last.out = "500" /\ last.settled > 0
    /\ models # <<>> /\ kernels # <<>>

\* C5, as stated: when shutdown(id) completes, the id is neither cached nor owned.
C5_GoneAtCompletion ==
    (last.op = "shutdownSettled") =>
        (last.id \notin IdsOf(models) /\ last.id \notin IdsOf(kernels))

\* C5, amended: when shutdown(id) returns to its caller for a cached id, before
\* the remote call completes, the id is neither cached nor owned; and the
\* completion of the remote call, resolved or rejected, changes neither the cache
\* nor the owned set and emits nothing.
C5_GoneAtReturn ==
    /\ (last.op = "shutdown") =>
          (last.id \notin IdsOf(models) /\ last.id \notin IdsOf(kernels))
    /\ (last.op = "shutdownSettled") =>
          (models = pre.models /\ kernels = pre.kernels /\ emits = <<>>)

\* C5, witness: the remote call of shutdown(id) rejects, and the id it removed,
\* with a live kernel of it, stays removed.
C5_Witness ==
    /\ last.op = "shutdownSettled" /\ last.rejected
    /\ last.id \notin IdsOf(models) /\ last.id \notin IdsOf(kernels)
    /\ models # <<>> /\ kernels # <<>>

\* C6: when shutdownAll settles, the owned set and the cache are empty, and it
\* rejects exactly when the refresh failed with an error that is not transient or
\* a remote shutdown failed: the cleanup has run by then.
C6_CleanupAlways ==
    (last.op = "shutdownAllSettled") =>
        /\ kernels = <<>>
        /\ models = <<>>
        /\ last.rejected <=> (IF last.id = "" THEN last.out = "500" ELSE last.out # "ok")

\* C6, witness: one of the remote shutdowns fails while two kernels are cached and
\* owned; shutdownAll rejects.
C6_Witness ==
    /\ last.op = "shutdownAllSettled" /\ last.rejected /\ last.id # ""
    /\ Len(last.mid.models) = 2 /\ IdsOf(last.mid.kernels) = Ids
    /\ kernels = <<>> /\ models = <<>>

\* C7: the cleanup of shutdownAll emits runningChanged once, as its last emission
\* and with the empty collection, if the cache was not empty when the cleanup
\* started, and does not emit it otherwise.
C7_OneEmission ==
    (last.op = "shutdownAllSettled") =>
        LET rc == Emitted(CleanupEmits, "runningChanged") IN
        IF last.mid.models # <<>>
        THEN Len(rc) = 1 /\ emits[Len(emits)] = RunningChanged(<<>>, <<>>)
        ELSE rc = <<>>

\* C8: a startNew whose remote call fails rejects, and neither the call nor its
\* failure changes the cache or the owned set or emits anything.
C8_StartNewFailure ==
    /\ (last.op = "startNewRejected") =>
          (last.rejected /\ models = pre.models /\ kernels = pre.kernels /\ emits = <<>>)
    /\ (last.op = "startNew") =>
          (models = pre.models /\ kernels = pre.kernels /\ emits = <<>>)

\* C8, witness: a startNew fails while the cache and the owned set are not empty.
C8_Witness ==
    last.op = "startNewRejected" /\ models # <<>> /\ kernels # <<>>

\* C9: connectTo, and startNew when its remote call has succeeded, add the kernel
\* to the owned set and in the same step make the cache hold its id: a model is
\* appended and runningChanged emitted once with the new cache if the id was not
\* cached; the cache is unchanged and nothing is emitted if it was.
C9_Register ==
    (last.op \in {"connectTo", "startNewResolved"}) =>
        /\ kernels = Append(pre.kernels, Kernel(last.id))
        /\ last.id \in IdsOf(models)
        /\ IF last.id \in IdsOf(pre.models)
           THEN models = pre.models /\ emits = <<>>
           ELSE /\ models = Append(pre.models, Model(last.id))
                /\ emits = <<RunningChanged(models, models)>>

\* C9, witness: startNew resolves with a kernel whose id is not cached, next to a
\* cached one, and the cache holds both at once.
C9_Witness ==
    /\ last.op = "startNewResolved" /\ last.id \notin IdsOf(pre.models)
    /\ Len(models) = 2 /\ Len(emits) = 1

\* C10: the refreshRunning / refreshSpecs calls that are outstanding all await
\* one and the same fetch of the poller, of which at most one is outstanding, and
\* they resolve only in the step in which that fetch settles.
C10_OneFetch ==
    /\ fetch.poll <= 1
    /\ (callers > 0) => (fetch.poll = 1 /\ poll = "fetching")
    /\ (last.settled > 0 /\ ~last.rejected) => last.op = "poll"
    /\ (last.settled > 0) => last.op \in {"poll", "dispose", "refresh"}

\* C10, witness: two refreshRunning calls await the one fetch outstanding.
C10_Witness == which = "kernel" /\ callers = 2 /\ fetch.poll = 1

\* C11: a call of dispose() on a manager that is disposed already changes nothing
\* (isDisposed, isReady, ready, the cache, the owned set, the specs, the poller,
\* the outstanding calls) and emits nothing, in both managers.
C11_DisposeIdempotent ==
    [][(isDisposed /\ last'.op = "dispose") =>
          /\ isDisposed' /\ isReady' = isReady /\ ready' = ready
          /\ models' = models /\ kernels' = kernels /\ specs' = specs
          /\ poll' = poll /\ callers' = callers /\ fetch' = fetch
          /\ shut' = shut /\ starts' = starts /\ all' = all
          /\ emits' = <<>>]_vars

\* C11, witness: dispose() has been called on a disposed KernelManager whose cache
\* a connectTo had filled again; the cache is still filled.
C11_Witness ==
    which = "kernel" /\ last.op = "dispose" /\ isDisposed /\ models # <<>>

\* C12: once the manager is disposed, whatever is called and whatever fetch
\* completes, the cache is empty, no runningChanged and no connectionFailure is
\* emitted, and connectTo and startNew register no kernel.
C12_DisposedTerminal ==
    isDisposed =>
        /\ models = <<>>
        /\ Emitted(emits, "runningChanged") = <<>>
        /\ Emitted(emits, "connectionFailure") = <<>>
        /\ (last.op \in {"connectTo", "startNewResolved"}) => kernels = pre.kernels

\* C13: isReady and isDisposed never go back from true to false, in both
\* managers and in every step, dispose() included; each therefore changes at
\* most once.
C13_Monotonic ==
    [][(isReady => isReady') /\ (isDisposed => isDisposed')]_vars

\* C13, witness: a manager that was ready has been disposed, and is ready still.
C13_Witness == last.op = "dispose" /\ isReady /\ isDisposed

\* C14: between operations every live kernel of the owned set has its id in the
\* cache, and when the holder of a registered kernel disposes it, the kernel
\* leaves the owned set and its model leaves the cache.
C14_OwnedConsistent ==
    /\ \A i \in DOMAIN kernels : ~kernels[i].isDisposed => kernels[i].id \in IdsOf(models)
    /\ (last.op = "kernelDisposed") =>
          /\ Len(kernels) = Len(pre.kernels) - 1
          /\ last.id \notin IdsOf(models)

C16_PollerStarted ==
    (fetch.ready = 0 /\ ~isDisposed) ~> (poll # "constructed" \/ isDisposed)

\* C17: a getSpecs that fails with a transient error (a network error or a 503)
\* does not make requestSpecs reject, emits connectionFailure once, and leaves
\* the cached specs as they were with no specsChanged.
C17_SpecTransient ==
    (which = "spec" /\ last.op \in {"ready", "poll"} /\ last.out \in {"NetworkError", "503"}) =>
        /\ ~last.rejected
        /\ Len(Emitted(emits, "connectionFailure")) = 1
        /\ specs = pre.specs
        /\ Emitted(emits, "specsChanged") = <<>>

\* C18, as stated: when the refresh fetch of shutdownAll has completed, with
\* whatever outcome, one remote shutdown call is issued for every id in the cache.
C18_CallsWhateverOutcome ==
    (last.op = "shutdownAllFetched" \/ SettledAtFetch) =>
        last.calls = [i \in DOMAIN Fetched.models |-> Fetched.models[i].id]

\* C18, amended: shutdownAll has issued no remote shutdown call while its refresh
\* fetch is outstanding. When the fetch completes with a failure that is not
\* transient, no call is issued and shutdownAll rejects; otherwise exactly one
\* call is issued for every id of the cache as the refresh left it, in cache order.
C18_CallsAfterRefresh ==
    /\ (all.phase = "fetching") => (all.pend = <<>> /\ fetch.all = 1)
    /\ (all.phase # "fetching") => fetch.all = 0
    /\ (last.op = "shutdownAllFetched" \/ SettledAtFetch) =>
          IF last.out = "500"
          THEN last.calls = <<>> /\ last.rejected /\ all.pend = <<>>
          ELSE /\ last.calls = [i \in DOMAIN Fetched.models |-> Fetched.models[i].id]
               /\ \A i, j \in DOMAIN last.calls : last.calls[i] = last.calls[j] => i = j
               /\ all.pend = last.calls
               /\ ~last.rejected

\* C18, witness: the refresh of shutdownAll delivers two kernels none of which is
\* owned, and two remote shutdown calls are issued.
C18_Witness ==
    /\ last.op = "shutdownAllFetched" /\ last.out = "ok"
    /\ Len(last.calls) = 2 /\ kernels = <<>> /\ all.phase = "shutting"

\* C19: a fetch that completes disposes or drops no owned live kernel whose
\* kernel exists at the service at that moment.
C19_OnlyGoneDisposed ==
    (which = "kernel" /\ FetchStep) =>
        \A i \in DOMAIN pre.kernels :
            (~pre.kernels[i].isDisposed /\ pre.kernels[i].id \in last.now) =>
                pre.kernels[i] \in {Fetched.kernels[j] : j \in DOMAIN Fetched.kernels}

\* C20: a fetch that completes with a snapshot on a disposed manager leaves the
\* cache and the owned set (the specs) as they were and emits nothing, and the
\* readiness fetch of a disposed manager does not set isReady.
C20_LateFetchInert ==
    /\ (which = "kernel" /\ isDisposed /\ FetchStep /\ last.out = "ok") =>
          /\ ~last.rejected
          /\ Fetched.models = pre.models
          /\ Fetched.kernels = pre.kernels
          /\ Fetched.emits = <<>>
    /\ (which = "spec" /\ isDisposed /\ last.op \in {"ready", "poll"} /\ last.out = "ok") =>
          /\ ~last.rejected
          /\ specs = pre.specs
          /\ emits = <<>>
    /\ (isDisposed /\ last.op = "ready") => ~isReady

\* C20, witness: the readiness fetch of a KernelManager disposed meanwhile
\* delivers a snapshot that differs from the cache and lacks an owned live
\* kernel; the kernel stays owned and the manager is not ready.
C20_Witness ==
    /\ which = "kernel" /\ isDisposed /\ last.op = "ready" /\ last.out = "ok"
    /\ last.snap # pre.models
    /\ \E i \in DOMAIN kernels :
          ~kernels[i].isDisposed /\ kernels[i].id \notin IdsOf(last.snap)
    /\ ~isReady

====
